---------------------------- MODULE Spec2Model ----------------------------
(***************************************************************************)
(* Verification model of the lockfree crate.                               *)
(*                                                                         *)
(*   RingBuffer<T, SIZE>     src/src/lockfree_queue.rs   (push / pop)      *)
(*   LockFreeValue<T, SIZE>  src/src/default/value.rs    (push / get_last) *)
(*                                                                         *)
(* One producer thread and one consumer thread share one structure.  Every *)
(* atomic load, atomic store and slot access of an operation is one step   *)
(* of the thread that runs it, so the behaviours of Spec are the            *)
(* interleavings of the two threads' steps.  The payload type T is an      *)
(* integer type; the payloads handed to the producer are 1, 2, 3, ... in   *)
(* call order, so that every value can be told from every other and from   *)
(* T::default().                                                           *)
(***************************************************************************)
EXTENDS Integers, Sequences, FiniteSets, TLC

\* Largest SIZE the structures are instantiated with.
MaxN == 4
\* Number of values the RingBuffer producer may get accepted in one run.
MaxPush == 6

\* Number of LockFreeValue::push calls the producer makes in one run.
MaxPub == 4

\* Calls of clear in a behaviour.
MaxClear == 1

\* T::default(), the content of every slot after construction.
DefaultT == 0
\* What an access to a slot may yield when it races with the other thread's
\* access to the same slot (a data race on a plain T: undefined behaviour).
Torn == -1
\* std::mem::zeroed::<T>(), what pop leaves in the slot it empties.
Zeroed == 0

VARIABLES
    kind,        \* which structure was constructed: "ring" or "value"
    SIZE,        \* the const generic SIZE of the constructed structure
    \* ---- RingBuffer fields
    idx_head,    \* RingBuffer::idx_head
    idx_tail,    \* RingBuffer::idx_tail
    m_data,      \* RingBuffer::m_data, slot index -> content
    \* ---- the producer thread inside RingBuffer::push
    push_pc,     \* "idle", "load_tail", "write", "store"
    push_value,  \* the argument `value`
    push_head,   \* the local `head`
    push_tail,   \* the local `tail`
    push_ret,    \* what the last push returned: "none", "Ok", "Full"
    \* ---- the consumer thread inside RingBuffer::pop
    pop_pc,      \* "idle", "load_head", "swap", "store"
    pop_tail,    \* the local `tail`
    pop_head,    \* the local `head`
    pop_res,     \* the local `res`
    pop_ret,     \* what the last pop returned: [st: "none"|"Ok"|"Empty", val]
    \* ---- the two threads inside RingBuffer::is_full and is_empty
    full_tail,   \* is_full's local `idx_tail` (0 outside the call)
    saw_full,    \* is_full's answer, until push's full test: "none", "full", "room"
    empty_tail,  \* is_empty's local `idx_tail` (0 outside the call)
    saw_empty,   \* is_empty's answer, until pop's empty test: "none", "empty", "items"
    \* ---- history of the RingBuffer run
    pushed,      \* values accepted by push (returned Ok), in order
    popped,      \* values returned by pop, in order
    run,         \* pushes accepted in a row since the buffer was empty, -1: n/a
    drained,     \* pops answered in a row since that run filled it, -1: n/a
    rlog,        \* the calls made since construction, while rseq holds
    rseq,        \* every call so far ran one at a time and is in rlog
    \* ---- LockFreeValue fields
    set_idx,     \* LockFreeValue::set_idx
    get_idx,     \* LockFreeValue::get_idx
    data,        \* LockFreeValue::data, slot index -> content
    \* ---- the producer thread inside LockFreeValue::push
    pub_pc,      \* "idle", "load_get", "skip", "read_old", "write", "store"
    pub_value,   \* the argument `value`
    pub_next,    \* the local `next`
    pub_old,     \* the local `old`
    pub_ret,     \* what the last push returned (the displaced value)
    \* ---- the consumer thread inside LockFreeValue::get_last
    get_pc,      \* "idle", "load_get", "claim", "read", "clear"
    gl_set,      \* the local `set_idx`
    gl_get,      \* the local `get_idx`
    gl_t,        \* the local `t`
    gl_ret,      \* what the last get_last returned
    \* ---- history of the LockFreeValue run
    pub_count,   \* number of push calls made so far; call k publishes value k
    taken,       \* the set of values get_last has returned
    displaced,   \* the set of values push has returned
    unread,      \* a push has completed since the last get_last that returned Ok
    log,         \* the latest calls that ran one at a time, oldest first
    sinceNew,    \* log holds every call made since construction
    overlap,     \* the calls now running have run at the same time
    cleared      \* the number of calls of clear so far

ringShared == <<idx_head, idx_tail, m_data>>
pushLocals == <<push_pc, push_value, push_head, push_tail, push_ret>>
popLocals  == <<pop_pc, pop_tail, pop_head, pop_res, pop_ret>>
ringHist   == <<pushed, popped, run, drained, rlog, rseq>>
fullLocals == <<full_tail, saw_full>>
emptyLocals == <<empty_tail, saw_empty>>
ringVars   ==
    <<ringShared, pushLocals, popLocals, fullLocals, emptyLocals, ringHist>>

valueShared == <<set_idx, get_idx, data>>
pubLocals   == <<pub_pc, pub_value, pub_next, pub_old, pub_ret>>
getLocals   == <<get_pc, gl_set, gl_get, gl_t, gl_ret>>
valueHist   ==
    <<pub_count, taken, displaced, unread, log, sinceNew, overlap, cleared>>
valueVars   == <<valueShared, pubLocals, getLocals, valueHist>>

vars == <<kind, SIZE, ringVars, valueVars>>

Slots == 0 .. (SIZE - 1)

NoRet == [st |-> "none", val |-> 0]
EmptyErr == [st |-> "Empty", val |-> 0]
OkVal(v) == [st |-> "Ok", val |-> v]

-----------------------------------------------------------------------------
(* RingBuffer::new and the thread state before the first call.             *)

RingNew ==
    /\ idx_head = 0
    /\ idx_tail = 0
    /\ m_data = [i \in Slots |-> DefaultT]

RingIdle ==
    /\ push_pc = "idle" /\ push_value = 0 /\ push_head = 0 /\ push_tail = 0
    /\ push_ret = "none"
    /\ pop_pc = "idle" /\ pop_tail = 0 /\ pop_head = 0 /\ pop_res = 0
    /\ pop_ret = NoRet
    /\ full_tail = 0 /\ saw_full = "none"
    /\ empty_tail = 0 /\ saw_empty = "none"
    /\ pushed = <<>> /\ popped = <<>>
    /\ run = 0 /\ drained = -1
    /\ rlog = <<>> /\ rseq = TRUE

\* LockFreeValue::new
ValueNew ==
    /\ set_idx = 0
    /\ get_idx = 0
    /\ data = [i \in Slots |-> DefaultT]

ValueIdle ==
    /\ pub_pc = "idle" /\ pub_value = 0 /\ pub_next = 0 /\ pub_old = 0
    /\ pub_ret = NoRet
    /\ get_pc = "idle" /\ gl_set = 0 /\ gl_get = 0 /\ gl_t = 0
    /\ gl_ret = NoRet
    /\ pub_count = 0 /\ taken = {} /\ displaced = {} /\ unread = FALSE
    /\ log = <<>> /\ sinceNew = TRUE /\ overlap = FALSE /\ cleared = 0

\* ringbuffer::<T, SIZE>() or make_value::<T, SIZE>(), for each SIZE.
Init ==
    /\ kind \in {"ring", "value"}
    /\ SIZE \in (IF kind = "ring" THEN 1 ELSE 2) .. MaxN
    /\ RingNew
    /\ RingIdle
    /\ ValueNew
    /\ ValueIdle

-----------------------------------------------------------------------------
(* The record of RingBuffer calls made since construction.                 *)

RCall(op, arg, st, val) == [op |-> op, arg |-> arg, st |-> st, val |-> val]

\* rseq after a call starts: it must not start beside a running call.
RSeqAtStart(otherIdle) == rseq /\ otherIdle

\* rseq and rlog after a call ends.
RSeqAfter == rseq /\ Len(rlog) < 10
RLogAfter(call) == IF RSeqAfter THEN Append(rlog, call) ELSE <<>>

-----------------------------------------------------------------------------
(* RingBuffer::push, one action per memory access.                         *)

\* Mutant: head wraps one index late.
PushWrap_late(head) == IF head = SIZE + 1 THEN 0 ELSE head

\* Mutant: head wraps one index early.
PushWrap_early(head) == IF head >= SIZE - 1 THEN 0 ELSE head

\* `if head == SIZE { head = 0; }`
PushWrap(head) == IF head = SIZE THEN 0 ELSE head

\* Mutant: the full test is left out.
PushIsFull_never(head, tail) == FALSE

\* Mutant: the full test refuses every push.
PushIsFull_always(head, tail) == TRUE

\* Mutant: the full test keeps two slots free instead of one.
PushIsFull_early(head, tail) ==
    head = tail \/ (IF head + 1 = SIZE THEN 0 ELSE head + 1) = tail

\* `if head == tail { return Err(Error::Full); }`
PushIsFull(head, tail) == head = tail

\* let mut head = self.idx_head.load(Acquire) + 1;
PushLoadHead ==
    /\ kind = "ring"
    /\ push_pc = "idle"
    /\ Len(pushed) < MaxPush
    /\ push_value' = Len(pushed) + 1
    /\ push_head' = idx_head + 1
    /\ push_ret' = "none"
    /\ push_pc' = "load_tail"
    /\ run' = IF idx_head = idx_tail THEN 0 ELSE run
    /\ rseq' = RSeqAtStart(pop_pc = "idle")
    /\ rlog' = IF rseq' THEN rlog ELSE <<>>
    /\ UNCHANGED <<kind, SIZE, valueVars, fullLocals, emptyLocals,
                   ringShared, push_tail, popLocals,
                   pushed, popped, drained>>

\* Mutant: the value is stored into slot idx_head before the full test.
PushLoadTail_writeFirst ==
    /\ kind = "ring"
    /\ push_pc = "load_tail"
    /\ saw_full' = "none"
    /\ push_tail' = idx_tail
    /\ push_head' = PushWrap(push_head)
    /\ m_data' = [m_data EXCEPT ![idx_head] = push_value]
    /\ IF PushIsFull(push_head', push_tail')
       THEN /\ push_ret' = "Full"
            /\ push_pc' = "idle"
            /\ rlog' = RLogAfter(RCall("push", push_value, "Full", 0))
            /\ rseq' = RSeqAfter
       ELSE /\ push_ret' = push_ret
            /\ push_pc' = "write"
            /\ UNCHANGED <<rlog, rseq>>
    /\ UNCHANGED <<kind, SIZE, valueVars, full_tail, emptyLocals,
                   idx_head, idx_tail, push_value,
                   popLocals, pushed, popped, run, drained>>

\* Mutant: push waits at the full test until the consumer has made room.
PushLoadTail_wait ==
    /\ kind = "ring"
    /\ push_pc = "load_tail"
    /\ saw_full' = "none"
    /\ ~PushIsFull(PushWrap(push_head), idx_tail)
    /\ push_tail' = idx_tail
    /\ push_head' = PushWrap(push_head)
    /\ push_pc' = "write"
    /\ UNCHANGED <<kind, SIZE, valueVars, full_tail, emptyLocals,
                   ringShared, push_value, push_ret,
                   popLocals, ringHist>>

\* let tail = self.idx_tail.load(Acquire); wrap head; the full test.
PushLoadTail ==
    /\ kind = "ring"
    /\ push_pc = "load_tail"
    /\ saw_full' = "none"
    /\ push_tail' = idx_tail
    /\ push_head' = PushWrap(push_head)
    /\ IF PushIsFull(push_head', push_tail')
       THEN /\ push_ret' = "Full"
            /\ push_pc' = "idle"
            /\ rlog' = RLogAfter(RCall("push", push_value, "Full", 0))
            /\ rseq' = RSeqAfter
       ELSE /\ push_ret' = push_ret
            /\ push_pc' = "write"
            /\ UNCHANGED <<rlog, rseq>>
    /\ UNCHANGED <<kind, SIZE, valueVars, full_tail, emptyLocals,
                   ringShared, push_value, popLocals,
                   pushed, popped, run, drained>>

\* Mutant: the value is stored into the slot of the oldest item.
PushWrite_atTail ==
    /\ kind = "ring"
    /\ push_pc = "write"
    /\ m_data' = [m_data EXCEPT ![idx_tail] = push_value]
    /\ push_pc' = "store"
    /\ UNCHANGED <<kind, SIZE, valueVars, fullLocals, emptyLocals,
                   idx_head, idx_tail, push_value, push_head,
                   push_tail, push_ret, popLocals, ringHist>>

\* self.m_data[self.idx_head.load(Acquire)] = value;
PushWrite ==
    /\ kind = "ring"
    /\ push_pc = "write"
    /\ m_data' = [m_data EXCEPT ![idx_head] = push_value]
    /\ push_pc' = "store"
    /\ UNCHANGED <<kind, SIZE, valueVars, fullLocals, emptyLocals,
                   idx_head, idx_tail, push_value, push_head,
                   push_tail, push_ret, popLocals, ringHist>>

\* self.idx_head.store(head, Release); Ok(())
PushStore ==
    /\ kind = "ring"
    /\ push_pc = "store"
    /\ idx_head' = push_head
    /\ push_ret' = "Ok"
    /\ push_pc' = "idle"
    /\ pushed' = Append(pushed, push_value)
    /\ run' = IF run >= 0 THEN run + 1 ELSE run
    /\ drained' = -1
    /\ rlog' = RLogAfter(RCall("push", push_value, "Ok", 0))
    /\ rseq' = RSeqAfter
    /\ UNCHANGED <<kind, SIZE, valueVars, fullLocals, emptyLocals,
                   idx_tail, m_data, push_value, push_head,
                   push_tail, popLocals, popped>>

-----------------------------------------------------------------------------
(* RingBuffer::pop, one action per memory access.                          *)

\* Mutant: the empty test is left out.
PopIsEmpty_never(head, tail) == FALSE

\* `if head == tail { return Err(Error::Empty); }`
PopIsEmpty(head, tail) == head = tail

\* `tail += 1; if tail == SIZE { tail = 0; }`
\* Mutant: pop leaves its cursor where it was.
PopAdvance_stay(tail) == tail

PopAdvance(tail) == IF tail + 1 = SIZE THEN 0 ELSE tail + 1

\* let mut tail = self.idx_tail.load(Acquire);
PopLoadTail ==
    /\ kind = "ring"
    /\ pop_pc = "idle"
    /\ pop_tail' = idx_tail
    /\ pop_ret' = NoRet
    /\ pop_pc' = "load_head"
    /\ drained' = IF run = SIZE - 1 THEN 0 ELSE drained
    /\ rseq' = RSeqAtStart(push_pc = "idle")
    /\ rlog' = IF rseq' THEN rlog ELSE <<>>
    /\ UNCHANGED <<kind, SIZE, valueVars, fullLocals, emptyLocals,
                   ringShared, pushLocals, pop_head, pop_res,
                   pushed, popped, run>>

\* let head = self.idx_head.load(Acquire); the empty test.
PopLoadHead ==
    /\ kind = "ring"
    /\ pop_pc = "load_head"
    /\ saw_empty' = "none"
    /\ pop_head' = idx_head
    /\ IF PopIsEmpty(pop_head', pop_tail)
       THEN /\ pop_ret' = EmptyErr
            /\ pop_pc' = "idle"
            /\ rlog' = RLogAfter(RCall("pop", 0, "Empty", 0))
            /\ rseq' = RSeqAfter
       ELSE /\ pop_ret' = pop_ret
            /\ pop_pc' = "swap"
            /\ UNCHANGED <<rlog, rseq>>
    /\ UNCHANGED <<kind, SIZE, valueVars, fullLocals, empty_tail,
                   ringShared, pushLocals, pop_tail, pop_res,
                   pushed, popped, run, drained>>

\* Mutant: the value is copied out and the slot keeps it.
PopSwap_copy ==
    /\ kind = "ring"
    /\ pop_pc = "swap"
    /\ pop_res' = m_data[pop_tail]
    /\ pop_tail' = PopAdvance(pop_tail)
    /\ pop_pc' = "store"
    /\ UNCHANGED <<kind, SIZE, valueVars, fullLocals, emptyLocals,
                   ringShared, pushLocals, pop_head,
                   pop_ret, ringHist>>

\* res = zeroed(); swap(&mut res, &mut self.m_data[tail]); tail += 1 (wrapped)
PopSwap ==
    /\ kind = "ring"
    /\ pop_pc = "swap"
    /\ pop_res' = m_data[pop_tail]
    /\ m_data' = [m_data EXCEPT ![pop_tail] = Zeroed]
    /\ pop_tail' = PopAdvance(pop_tail)
    /\ pop_pc' = "store"
    /\ UNCHANGED <<kind, SIZE, valueVars, fullLocals, emptyLocals,
                   idx_head, idx_tail, pushLocals, pop_head,
                   pop_ret, ringHist>>

\* self.idx_tail.store(tail, Release); return Ok(res);
PopStore ==
    /\ kind = "ring"
    /\ pop_pc = "store"
    /\ idx_tail' = pop_tail
    /\ pop_ret' = OkVal(pop_res)
    /\ pop_pc' = "idle"
    /\ popped' = Append(popped, pop_res)
    /\ run' = -1
    /\ drained' = IF drained >= 0 THEN drained + 1 ELSE drained
    /\ rlog' = RLogAfter(RCall("pop", 0, "Ok", pop_res))
    /\ rseq' = RSeqAfter
    /\ UNCHANGED <<kind, SIZE, valueVars, fullLocals, emptyLocals,
                   idx_head, m_data, pushLocals, pop_tail,
                   pop_head, pop_res, pushed>>

-----------------------------------------------------------------------------
(* RingBuffer::is_full on the producer thread and RingBuffer::is_empty on   *)
(* the consumer thread, one action per atomic load.                        *)

\* Mutant: is_full always answers false.
IsFull_never(tail, head) == FALSE

\* Mutant: is_full answers as if two slots were kept free.
IsFull_early(tail, head) ==
    tail = (head + 1) % SIZE \/ tail = (head + 2) % SIZE

\* `idx_tail == (idx_head + 1) % SIZE`
IsFull(tail, head) == tail = (head + 1) % SIZE

\* `idx_head == idx_tail`
IsEmpty(tail, head) == head = tail

\* is_full: let idx_tail = self.idx_tail.load(Acquire);
IsFullLoadTail ==
    /\ kind = "ring"
    /\ push_pc = "idle"
    /\ full_tail' = idx_tail
    /\ saw_full' = "none"
    /\ push_pc' = "full_head"
    /\ UNCHANGED <<kind, SIZE, valueVars, ringShared, push_value, push_head,
                   push_tail, push_ret, popLocals, emptyLocals, ringHist>>

\* is_full: let idx_head = self.idx_head.load(Acquire); the comparison.
IsFullLoadHead ==
    /\ kind = "ring"
    /\ push_pc = "full_head"
    /\ saw_full' = IF IsFull(full_tail, idx_head) THEN "full" ELSE "room"
    /\ full_tail' = 0
    /\ push_pc' = "idle"
    /\ UNCHANGED <<kind, SIZE, valueVars, ringShared, push_value, push_head,
                   push_tail, push_ret, popLocals, emptyLocals, ringHist>>

\* is_empty: let idx_tail = self.idx_tail.load(Acquire);
IsEmptyLoadTail ==
    /\ kind = "ring"
    /\ pop_pc = "idle"
    /\ empty_tail' = idx_tail
    /\ saw_empty' = "none"
    /\ pop_pc' = "empty_head"
    /\ UNCHANGED <<kind, SIZE, valueVars, ringShared, pushLocals, pop_tail,
                   pop_head, pop_res, pop_ret, fullLocals, ringHist>>

\* is_empty: let idx_head = self.idx_head.load(Acquire); the comparison.
IsEmptyLoadHead ==
    /\ kind = "ring"
    /\ pop_pc = "empty_head"
    /\ saw_empty' = IF IsEmpty(empty_tail, idx_head) THEN "empty" ELSE "items"
    /\ empty_tail' = 0
    /\ pop_pc' = "idle"
    /\ UNCHANGED <<kind, SIZE, valueVars, ringShared, pushLocals, pop_tail,
                   pop_head, pop_res, pop_ret, fullLocals, ringHist>>

RingNext ==
    \/ PushLoadHead \/ PushLoadTail \/ PushWrite \/ PushStore
    \/ PopLoadTail \/ PopLoadHead \/ PopSwap \/ PopStore
    \/ IsFullLoadTail \/ IsFullLoadHead
    \/ IsEmptyLoadTail \/ IsEmptyLoadHead

-----------------------------------------------------------------------------
(* Cursor arithmetic of LockFreeValue.                                     *)

RECURSIVE BitAnd(_, _)
\* a & b on usize
BitAnd(a, b) ==
    IF a = 0 \/ b = 0
    THEN 0
    ELSE (a % 2) * (b % 2) + 2 * BitAnd(a \div 2, b \div 2)

\* `(idx + 1) & (SIZE - 1)`
NextIdx(idx) == BitAnd(idx + 1, SIZE - 1)

\* next_idx_safe as a function of the two cursors it loads.
NextIdxSafe(set, get) ==
    LET next == NextIdx(set)
    IN  IF next = get THEN NextIdx(get) ELSE next

-----------------------------------------------------------------------------
(* The record of calls that ran one at a time.                             *)

Call(op, arg, st, val, pend) ==
    [op |-> op, arg |-> arg, st |-> st, val |-> val, pend |-> pend]

\* log after a call ends: the call is appended when nothing ran beside it
\* and the cursors have not been reset by clear.
LogAfter(call, otherIdle) ==
    IF overlap \/ ~otherIdle \/ cleared > 0
    THEN <<>>
    ELSE IF Len(log) >= 6 THEN Append(Tail(log), call) ELSE Append(log, call)

SinceNewAfter(otherIdle) ==
    sinceNew /\ ~overlap /\ otherIdle /\ Len(log) < 6

-----------------------------------------------------------------------------
(* Slot accesses.  data[idx] is a plain T: an access while the other       *)
(* thread is inside its own std::mem::replace of the same slot is a data   *)
(* race, and may see or leave a torn value.                                *)

PubInReplace(idx) == pub_pc \in {"read_old", "write"} /\ pub_next = idx
GetInReplace(idx) == get_pc \in {"read", "clear"} /\ gl_set = idx

ReadBy(idx, racing) == {data[idx]} \cup (IF racing THEN {Torn} ELSE {})
WriteBy(v, racing) == {v} \cup (IF racing THEN {Torn} ELSE {})

-----------------------------------------------------------------------------
(* LockFreeValue::push (publish), one action per memory access.            *)

\* next_idx_safe: let next = (self.set_idx.load(Acquire) + 1) & (SIZE - 1);
PublishLoadSet ==
    /\ kind = "value"
    /\ pub_pc = "idle"
    /\ pub_count < MaxPub
    /\ pub_count' = pub_count + 1
    /\ pub_value' = pub_count + 1
    /\ pub_next' = NextIdx(set_idx)
    /\ pub_ret' = NoRet
    /\ pub_pc' = "load_get"
    /\ overlap' = (overlap \/ get_pc # "idle")
    /\ UNCHANGED <<kind, SIZE, ringVars, valueShared, pub_old, getLocals,
                   taken, displaced, unread, log, sinceNew, cleared>>

\* next_idx_safe: if next == self.get_idx.load(Acquire)
PublishLoadGet ==
    /\ kind = "value"
    /\ pub_pc = "load_get"
    /\ pub_pc' = IF pub_next = get_idx THEN "skip" ELSE "read_old"
    /\ UNCHANGED <<kind, SIZE, ringVars, valueShared, pub_value, pub_next,
                   pub_old, pub_ret, getLocals, valueHist>>

\* next_idx_safe: (self.get_idx.load(Acquire) + 1) & (SIZE - 1)
PublishSkip ==
    /\ kind = "value"
    /\ pub_pc = "skip"
    /\ pub_next' = NextIdx(get_idx)
    /\ pub_pc' = "read_old"
    /\ UNCHANGED <<kind, SIZE, ringVars, valueShared, pub_value, pub_old,
                   pub_ret, getLocals, valueHist>>

\* set_value: std::mem::replace(&mut self.data[idx], value), its read
PublishReadOld ==
    /\ kind = "value"
    /\ pub_pc = "read_old"
    /\ pub_old' \in ReadBy(pub_next, GetInReplace(pub_next))
    /\ pub_pc' = "write"
    /\ UNCHANGED <<kind, SIZE, ringVars, valueShared, pub_value, pub_next,
                   pub_ret, getLocals, valueHist>>

\* set_value: std::mem::replace(&mut self.data[idx], value), its write
PublishWrite ==
    /\ kind = "value"
    /\ pub_pc = "write"
    /\ \E w \in WriteBy(pub_value, GetInReplace(pub_next)) :
           data' = [data EXCEPT ![pub_next] = w]
    /\ pub_pc' = "store"
    /\ UNCHANGED <<kind, SIZE, ringVars, set_idx, get_idx, pub_value,
                   pub_next, pub_old, pub_ret, getLocals, valueHist>>

\* self.set_idx.store(next, Release); old
PublishStore ==
    /\ kind = "value"
    /\ pub_pc = "store"
    /\ set_idx' = pub_next
    /\ pub_ret' = OkVal(pub_old)
    /\ pub_pc' = "idle"
    /\ displaced' = displaced \cup {pub_old}
    /\ unread' = TRUE
    /\ log' = LogAfter(Call("push", pub_value, "Ok", pub_old, unread),
                       get_pc = "idle")
    /\ sinceNew' = SinceNewAfter(get_pc = "idle")
    /\ overlap' = (get_pc # "idle")
    /\ UNCHANGED <<kind, SIZE, ringVars, get_idx, data, pub_value, pub_next,
                   pub_old, getLocals, pub_count, taken, cleared>>

-----------------------------------------------------------------------------
(* LockFreeValue::get_last (take_latest), one action per memory access.    *)

\* Mutant: the empty test is left out.
GetLastIsEmpty_never(set, get) == FALSE

\* `if set_idx == get_idx { return Err(Error::Empty); }`
GetLastIsEmpty(set, get) == set = get

\* let set_idx = self.set_idx.load(Acquire);
GetLastLoadSet ==
    /\ kind = "value"
    /\ get_pc = "idle"
    /\ gl_set' = set_idx
    /\ gl_ret' = NoRet
    /\ get_pc' = "load_get"
    /\ overlap' = (overlap \/ pub_pc # "idle")
    /\ UNCHANGED <<kind, SIZE, ringVars, valueShared, pubLocals, gl_get, gl_t,
                   pub_count, taken, displaced, unread, log, sinceNew,
                   cleared>>

\* let get_idx = self.get_idx.load(Acquire); the empty test.
GetLastLoadGet ==
    /\ kind = "value"
    /\ get_pc = "load_get"
    /\ gl_get' = get_idx
    /\ IF GetLastIsEmpty(gl_set, gl_get')
       THEN /\ gl_ret' = EmptyErr
            /\ get_pc' = "idle"
            /\ log' = LogAfter(Call("get_last", 0, "Empty", 0, unread),
                               pub_pc = "idle")
            /\ sinceNew' = SinceNewAfter(pub_pc = "idle")
            /\ overlap' = (pub_pc # "idle")
       ELSE /\ gl_ret' = gl_ret
            /\ get_pc' = "claim"
            /\ UNCHANGED <<log, sinceNew, overlap>>
    /\ UNCHANGED <<kind, SIZE, ringVars, valueShared, pubLocals, gl_set, gl_t,
                   pub_count, taken, displaced, unread, cleared>>

\* self.get_idx.store(set_idx, Release);
GetLastClaim ==
    /\ kind = "value"
    /\ get_pc = "claim"
    /\ get_idx' = gl_set
    /\ get_pc' = "read"
    /\ UNCHANGED <<kind, SIZE, ringVars, set_idx, data, pubLocals, gl_set,
                   gl_get, gl_t, gl_ret, valueHist>>

\* std::mem::replace(&mut self.data[set_idx], T::default()), its read
GetLastRead ==
    /\ kind = "value"
    /\ get_pc = "read"
    /\ gl_t' \in ReadBy(gl_set, PubInReplace(gl_set))
    /\ get_pc' = "clear"
    /\ UNCHANGED <<kind, SIZE, ringVars, valueShared, pubLocals, gl_set,
                   gl_get, gl_ret, valueHist>>

\* std::mem::replace(&mut self.data[set_idx], T::default()), its write; Ok(t)
GetLastClear ==
    /\ kind = "value"
    /\ get_pc = "clear"
    /\ \E w \in WriteBy(DefaultT, PubInReplace(gl_set)) :
           data' = [data EXCEPT ![gl_set] = w]
    /\ gl_ret' = OkVal(gl_t)
    /\ get_pc' = "idle"
    /\ taken' = taken \cup {gl_t}
    /\ unread' = FALSE
    /\ log' = LogAfter(Call("get_last", 0, "Ok", gl_t, unread),
                       pub_pc = "idle")
    /\ sinceNew' = SinceNewAfter(pub_pc = "idle")
    /\ overlap' = (pub_pc # "idle")
    /\ UNCHANGED <<kind, SIZE, ringVars, set_idx, get_idx, pubLocals, gl_set,
                   gl_get, gl_t, pub_count, displaced, cleared>>

-----------------------------------------------------------------------------
(* ValueWriter::clear, called on the producer's handle.                    *)

\* self.set_idx.store(0, Ordering::Release);
ClearStoreSet ==
    /\ kind = "value"
    /\ pub_pc = "idle"
    /\ cleared < MaxClear
    /\ cleared' = cleared + 1
    /\ set_idx' = 0
    /\ pub_ret' = NoRet
    /\ pub_pc' = "clear_get"
    /\ log' = <<>>
    /\ sinceNew' = FALSE
    /\ overlap' = (overlap \/ get_pc # "idle")
    /\ UNCHANGED <<kind, SIZE, ringVars, get_idx, data, pub_value, pub_next,
                   pub_old, getLocals, pub_count, taken, displaced, unread>>

\* self.get_idx.store(0, Ordering::Release);
ClearStoreGet ==
    /\ kind = "value"
    /\ pub_pc = "clear_get"
    /\ get_idx' = 0
    /\ pub_pc' = "idle"
    /\ overlap' = (get_pc # "idle")
    /\ UNCHANGED <<kind, SIZE, ringVars, set_idx, data, pub_value, pub_next,
                   pub_old, pub_ret, getLocals, pub_count, taken, displaced,
                   unread, log, sinceNew, cleared>>

ValueNext ==
    \/ PublishLoadSet \/ PublishLoadGet \/ PublishSkip
    \/ PublishReadOld \/ PublishWrite \/ PublishStore
    \/ ClearStoreSet \/ ClearStoreGet
    \/ GetLastLoadSet \/ GetLastLoadGet \/ GetLastClaim
    \/ GetLastRead \/ GetLastClear

Next == RingNext \/ ValueNext

Spec == Init /\ [][Next]_vars

-----------------------------------------------------------------------------
(* Properties of RingBuffer.                                               *)

IsPrefix(s, t) ==
    /\ Len(s) <= Len(t)
    /\ \A i \in 1 .. Len(s) : s[i] = t[i]

\* C1: under every interleaving of the steps of push and pop, the values
\* returned by pop are, in order, the first values accepted by push: same
\* order, none twice, none skipped.
C1_Fifo == kind = "ring" => IsPrefix(popped, pushed)

\* C1 witness: the cursors have wrapped and a pop is about to return while a
\* push is about to publish.
C1_Witness ==
    /\ kind = "ring"
    /\ Len(popped) > SIZE
    /\ pop_pc = "store"
    /\ push_pc = "store"

\* C4: counted from an empty buffer, at any cursor position, SIZE-1 pushes in
\* a row are accepted and no more (a push returns Full only as the SIZE-th);
\* counted from there, SIZE-1 pops in a row return a value and no more (a pop
\* returns Empty only as the SIZE-th).
C4_Capacity ==
    kind = "ring" =>
        /\ run <= SIZE - 1
        /\ (push_pc = "idle" /\ push_ret = "Full" /\ run >= 0
                => run = SIZE - 1)
        /\ drained <= SIZE - 1
        /\ (pop_pc = "idle" /\ pop_ret.st = "Empty" /\ drained >= 0
                => drained = SIZE - 1)

\* C4 witness: a run that started at a wrapped cursor position was refused
\* its SIZE-th push and, SIZE-1 pops later, its SIZE-th pop.
C4_Witness ==
    /\ kind = "ring"
    /\ SIZE = 3
    /\ Len(popped) > SIZE
    /\ push_pc = "idle" /\ push_ret = "Full"
    /\ pop_pc = "idle" /\ pop_ret.st = "Empty"
    /\ drained = SIZE - 1

\* C5: a push that finds next_head == tail returns Full, and no step of it
\* changes head, tail, a slot or the accepted values.
C5_FullPushNoEffect ==
    [][ ( /\ kind = "ring"
          /\ push_pc' # push_pc
          /\ push_pc \in {"idle", "load_tail"}
          /\ (push_pc = "load_tail" => (idx_head + 1) % SIZE = idx_tail) )
        => /\ UNCHANGED <<idx_head, idx_tail, m_data, pushed>>
           /\ (push_pc = "load_tail"
                  => push_ret' = "Full" /\ push_pc' = "idle") ]_vars

\* C5 witness: a push was refused while SIZE-1 values were queued.
C5_Witness ==
    /\ kind = "ring"
    /\ SIZE >= 3
    /\ push_pc = "idle" /\ push_ret = "Full"
    /\ Len(pushed) - Len(popped) = SIZE - 1
    /\ Len(popped) > 0

\* C6: a pop that finds head == tail returns Empty and no step of it changes
\* head, tail or a slot; a get_last whose loaded set_idx equals get_idx
\* returns Empty and no step of it changes set_idx, get_idx or a slot.
C6_EmptyNoEffect ==
    [][ /\ ( /\ kind = "ring"
             /\ pop_pc' # pop_pc
             /\ pop_pc \in {"idle", "load_head"}
             /\ (pop_pc = "load_head" => idx_head = idx_tail) )
           => /\ UNCHANGED <<idx_head, idx_tail, m_data, popped>>
              /\ (pop_pc = "load_head"
                     => pop_ret'.st = "Empty" /\ pop_pc' = "idle")
        /\ ( /\ kind = "value"
             /\ get_pc' # get_pc
             /\ get_pc \in {"idle", "load_get"}
             /\ (get_pc = "load_get" => gl_set = get_idx) )
           => /\ UNCHANGED <<set_idx, get_idx, data, taken>>
              /\ (get_pc = "load_get"
                     => gl_ret'.st = "Empty" /\ get_pc' = "idle") ]_vars

\* C6 witness: get_last returned Empty after an earlier get_last had taken a
\* published value.
C6_Witness ==
    /\ kind = "value"
    /\ get_pc = "idle" /\ gl_ret.st = "Empty"
    /\ set_idx = get_idx
    /\ taken # {}

-----------------------------------------------------------------------------
(* Properties of LockFreeValue.                                            *)

\* C2: with SIZE >= 3, the producer is never inside its write of a slot that
\* the consumer's running get_last has selected, claimed or is removing.
C2_MidOpExclusion ==
    (kind = "value" /\ SIZE >= 3 /\ cleared = 0)
        => ~(get_pc \in {"claim", "read", "clear"} /\ PubInReplace(gl_set))

\* C3: when both threads are between calls and the newest published value
\* has not been returned by get_last, the next get_last returns it: set_idx
\* differs from get_idx and the slot at set_idx holds that value.
C3_NewestDeliverable ==
    ( /\ kind = "value"
      /\ pub_pc = "idle" /\ get_pc = "idle"
      /\ pub_count > 0
      /\ pub_count \notin taken
      /\ cleared = 0 )
        => set_idx # get_idx /\ data[set_idx] = pub_count

LastCalls(n) == SubSeq(log, Len(log) - n + 1, Len(log))

\* C7: push(v1), push(v2), get_last, run one after the other from a state
\* with no call in progress: the get_last returns v2.
C7_Overwrite ==
    (kind = "value" /\ Len(log) >= 3) =>
        LET c == LastCalls(3)
        IN  (c[1].op = "push" /\ c[2].op = "push" /\ c[3].op = "get_last")
                => c[3].st = "Ok" /\ c[3].val = c[2].arg

\* C8: two get_last calls run one after the other with no push between
\* them: the first returns a value exactly when a push has completed since
\* the last get_last that returned one, and the second returns Empty.
C8_IdempotentEmpty ==
    (kind = "value" /\ Len(log) >= 2) =>
        LET c == LastCalls(2)
        IN  (c[1].op = "get_last" /\ c[2].op = "get_last")
                => /\ (c[1].st = "Ok" <=> c[1].pend)
                   /\ c[2].st = "Empty"

\* C9: a push that runs while the consumer is between calls, holding the
\* slot at get_idx, chooses a slot other than get_idx.
C9_NonCollision ==
    ( /\ kind = "value"
      /\ pub_pc \in {"read_old", "write", "store"}
      /\ get_pc = "idle" /\ ~overlap /\ cleared = 0 )
        => pub_next # get_idx

ScenarioOps == <<"push", "get_last", "get_last", "push", "push", "get_last">>

ScenarioRun(k) ==
    /\ kind = "value" /\ SIZE = 3 /\ sinceNew
    /\ Len(log) >= k
    /\ \A j \in 1 .. k : log[j].op = ScenarioOps[j]

\* C10: SIZE = 3, freshly constructed: push(1); get_last returns 1; get_last
\* returns Empty; push(2); push(3); get_last returns 3.
C10_Scenario ==
    /\ ScenarioRun(2) => log[2].st = "Ok" /\ log[2].val = 1
    /\ ScenarioRun(3) => log[3].st = "Empty"
    /\ ScenarioRun(6) => log[6].st = "Ok" /\ log[6].val = 3

-----------------------------------------------------------------------------
(* Further properties of RingBuffer.                                       *)

RingScenarioOps ==
    <<"push", "push", "push", "push", "pop", "pop", "push", "pop", "pop",
      "pop">>

RingScenarioRun(k) ==
    /\ kind = "ring" /\ SIZE = 4 /\ rseq
    /\ Len(rlog) >= k
    /\ \A j \in 1 .. k : rlog[j].op = RingScenarioOps[j]

\* C11: SIZE = 4, freshly constructed: push(1), push(2), push(3) return Ok;
\* push(4) returns Full; pop returns 1, then 2; push(4) returns Ok; pop
\* returns 3, then 4; pop returns Empty.
C11_Scenario ==
    /\ \A k \in {1, 2, 3} :
           RingScenarioRun(k) => rlog[k].st = "Ok" /\ rlog[k].arg = k
    /\ RingScenarioRun(7) => rlog[7].st = "Ok" /\ rlog[7].arg = 4
    /\ RingScenarioRun(4) => rlog[4].st = "Full" /\ rlog[4].arg = 4
    /\ RingScenarioRun(5) => rlog[5].st = "Ok" /\ rlog[5].val = 1
    /\ RingScenarioRun(6) => rlog[6].st = "Ok" /\ rlog[6].val = 2
    /\ RingScenarioRun(8) => rlog[8].st = "Ok" /\ rlog[8].val = 3
    /\ RingScenarioRun(9) => rlog[9].st = "Ok" /\ rlog[9].val = 4
    /\ RingScenarioRun(10) => rlog[10].st = "Empty"

\* C11 witness: the ten calls of the scenario have run.
C11_Witness == RingScenarioRun(10) /\ Len(rlog) = 10

\* A push whose full test runs on an empty buffer goes on to store its value.
PushOnEmptyAccepted ==
    ( /\ push_pc = "load_tail" /\ push_pc' # push_pc
      /\ idx_head = idx_tail )
        => push_pc' = "write"

\* The pop that follows the one push accepted since the buffer was empty
\* returns that push's value, empties the buffer again and leaves the slot
\* without the value.
PopAfterOnePush ==
    ( /\ pop_pc = "store" /\ pop_pc' # pop_pc
      /\ run = 1 /\ push_pc = "idle" )
        => /\ pop_ret' = OkVal(pushed[Len(pushed)])
           /\ idx_head' = idx_tail'
           /\ m_data'[idx_tail] # pushed[Len(pushed)]

\* C12 as stated, for every SIZE: in every empty state push(v) is accepted,
\* and the pop that follows returns v, leaves the buffer empty and the slot
\* without v.
C12_RoundTripAnySize ==
    [][ kind = "ring" => PushOnEmptyAccepted /\ PopAfterOnePush ]_vars

\* C12 amended: the same for SIZE >= 2 (a SIZE = 1 buffer holds SIZE-1 = 0
\* values and refuses every push).
C12_RoundTrip ==
    [][ (kind = "ring" /\ SIZE >= 2)
            => PushOnEmptyAccepted /\ PopAfterOnePush ]_vars

\* C12 witness: with SIZE = 2, three round trips in a row, each from an
\* empty buffer, the third at a wrapped cursor.
C12_Witness ==
    /\ kind = "ring" /\ SIZE = 2 /\ rseq
    /\ Len(rlog) = 6
    /\ \A j \in 1 .. 6 :
           /\ rlog[j].op = (IF j % 2 = 1 THEN "push" ELSE "pop")
           /\ rlog[j].st = "Ok"
    /\ \A j \in 1 .. 3 : rlog[2 * j].val = rlog[2 * j - 1].arg
    /\ idx_head = idx_tail

-----------------------------------------------------------------------------
(* Properties of both structures.                                          *)

\* The steps a thread takes inside a call it has started.
PushStep == PushLoadTail \/ PushWrite \/ PushStore
PopStep == PopLoadHead \/ PopSwap \/ PopStore
IsFullStep == IsFullLoadHead
IsEmptyStep == IsEmptyLoadHead
PublishStep ==
    PublishLoadGet \/ PublishSkip \/ PublishReadOld \/ PublishWrite
        \/ PublishStore
ClearStep == ClearStoreGet
GetLastStep == GetLastLoadGet \/ GetLastClaim \/ GetLastRead \/ GetLastClear

\* The position of a program counter in its operation, in program order.
PcRank(pc) ==
    CASE pc = "idle" -> 0
      [] pc \in {"load_tail", "load_head", "load_get", "clear_get",
                  "full_head", "empty_head"} -> 1
      [] pc \in {"skip", "claim"} -> 2
      [] pc \in {"read_old", "read", "swap"} -> 3
      [] pc \in {"write", "clear"} -> 4
      [] pc = "store" -> 5

\* A thread inside a call can take its next step whatever the other thread's
\* position is.
NeverWaits ==
    /\ push_pc # "idle" => ENABLED (PushStep \/ IsFullStep)
    /\ pop_pc # "idle" => ENABLED (PopStep \/ IsEmptyStep)
    /\ pub_pc # "idle" => ENABLED (PublishStep \/ ClearStep)
    /\ get_pc # "idle" => ENABLED GetLastStep

\* Every step of a call moves forward in the operation or returns: no step
\* goes back to retry.
NeverRetries ==
    \A pcs \in {<<push_pc, push_pc'>>, <<pop_pc, pop_pc'>>,
                 <<pub_pc, pub_pc'>>, <<get_pc, get_pc'>>} :
        pcs[2] # pcs[1] =>
            pcs[2] = "idle" \/ PcRank(pcs[2]) > PcRank(pcs[1])

\* C13: push, pop, publish, take_latest (and clear) return after at most five steps
\* of their own, and none of their steps waits for the other thread.
C13_WaitFree == [][NeverRetries]_vars /\ []NeverWaits

\* C13 witness (RingBuffer): the producer is at the full test of a push on
\* a full buffer while the consumer stands still in the middle of a pop.
C13_Witness ==
    /\ kind = "ring" /\ SIZE >= 2
    /\ push_pc = "load_tail"
    /\ PushIsFull(PushWrap(push_head), idx_tail)
    /\ pop_pc = "load_head"

-----------------------------------------------------------------------------
(* Progress of RingBuffer: a producer thread that calls push again after    *)
(* each return, with the same value after Full, and a consumer thread that *)
(* calls pop again after each return, both scheduled fairly.               *)

ProducerRun == PushLoadHead \/ PushLoadTail \/ PushWrite \/ PushStore
ConsumerRun == PopLoadTail \/ PopLoadHead \/ PopSwap \/ PopStore

LiveNext == ProducerRun \/ ConsumerRun

LiveSpec ==
    Init /\ [][LiveNext]_vars /\ WF_vars(ProducerRun) /\ WF_vars(ConsumerRun)

\* C25: for SIZE >= 2, a push of the k-th value that is under way is
\* followed, after the retries, by a push of it that returns Ok, and every
\* value accepted by a push is later returned by a pop.
C25_Progress ==
    \A k \in 1..MaxPush :
        /\ (kind = "ring" /\ SIZE >= 2 /\ push_pc # "idle" /\ push_value = k)
               ~> (Len(pushed) >= k)
        /\ (kind = "ring" /\ SIZE >= 2 /\ Len(pushed) >= k)
               ~> (Len(popped) >= k /\ popped[k] = k)

\* C25 witness: in calls that ran one after the other, a push was refused
\* with Full, the retry of the same value returned Ok, and a later pop
\* returned that value.
C25_Witness ==
    /\ kind = "ring" /\ SIZE >= 2 /\ rseq
    /\ \E i, j, l \in 1..Len(rlog) :
           /\ i < j /\ j < l
           /\ rlog[i].op = "push" /\ rlog[i].st = "Full"
           /\ rlog[j].op = "push" /\ rlog[j].st = "Ok"
           /\ rlog[j].arg = rlog[i].arg
           /\ rlog[l].op = "pop" /\ rlog[l].st = "Ok"
           /\ rlog[l].val = rlog[i].arg

\* The slots holding a value whose push has returned Ok and that no pop has
\* returned.
LiveSlots ==
    {i \in Slots :
        /\ \E k \in 1..Len(pushed) : pushed[k] = m_data[i]
        /\ \A j \in 1..Len(popped) : popped[j] # m_data[i]}

\* `(head - tail) mod N`
Occupancy == (idx_head + SIZE - idx_tail) % SIZE

\* A pop has taken the value out of its slot and not yet stored idx_tail.
PopHoldsItem == pop_pc = "store"

\* C15 as stated: in every state the number of live slots is
\* (head - tail) mod N, it is at most N-1, and head == tail exactly when no
\* slot is live.
C15_OccupancyEveryState ==
    kind = "ring" =>
        /\ Cardinality(LiveSlots) = Occupancy
        /\ Occupancy <= SIZE - 1
        /\ idx_head = idx_tail <=> LiveSlots = {}

\* C15, amended: the same, counting with the live slots the one item a pop
\* in progress has taken out of its slot before it has stored idx_tail.
C15_Occupancy ==
    kind = "ring" =>
        LET held == IF PopHoldsItem THEN 1 ELSE 0
        IN  /\ Cardinality(LiveSlots) + held = Occupancy
            /\ Occupancy <= SIZE - 1
            /\ idx_head = idx_tail <=> (LiveSlots = {} /\ ~PopHoldsItem)

\* C15 witness: a full buffer of four slots whose head has wrapped behind
\* its tail, after pops and with a push in progress.
C15_Witness ==
    /\ kind = "ring" /\ SIZE = 4
    /\ idx_head < idx_tail
    /\ Cardinality(LiveSlots) = 3
    /\ Len(popped) >= 2
    /\ push_pc = "load_tail"

\* The values whose push has returned Ok and that no pop has returned.
Unconsumed ==
    {pushed[k] : k \in 1..Len(pushed)} \ {popped[j] : j \in 1..Len(popped)}

\* A step of push that changes a slot changes one holding no unconsumed
\* value.
PushSparesUnconsumed ==
    (kind = "ring" /\ push_pc' # push_pc) =>
        \A i \in Slots : m_data'[i] # m_data[i] => m_data[i] \notin Unconsumed

\* Until push has stored idx_head, no pop has read or returned its value; a
\* pop reads only values whose push has stored idx_head.
PoppableAfterStore ==
    kind = "ring" =>
        /\ push_pc \in {"load_tail", "write", "store"} =>
               /\ \A j \in 1..Len(popped) : popped[j] # push_value
               /\ pop_pc = "store" => pop_res # push_value
        /\ pop_pc = "store" => \E k \in 1..Len(pushed) : pushed[k] = pop_res

\* C20: push never stores over a value that was pushed and not yet popped,
\* and its own value can be popped only after it has stored idx_head.
C20_NoOverwrite == [][PushSparesUnconsumed]_vars /\ []PoppableAfterStore

\* C20 witness: a push has written a slot that held an earlier, since popped
\* value and has not yet stored idx_head, while a pop is about to read the
\* oldest unconsumed value.
C20_Witness ==
    /\ kind = "ring" /\ SIZE = 3
    /\ push_pc = "store" /\ m_data[idx_head] = push_value
    /\ Len(popped) >= 3
    /\ pop_pc = "swap" /\ m_data[pop_tail] \in Unconsumed

\* push has passed its full test and has not returned: it writes, or has
\* written, slot idx_head.
PushPastFullTest == kind = "ring" /\ push_pc \in {"write", "store"}

\* pop has passed its empty test and has not returned: it removes, or has
\* removed, the value of slot idx_tail.
PopPastEmptyTest == kind = "ring" /\ pop_pc \in {"swap", "store"}

\* C21: while push is past its full test and pop is past its empty test,
\* the slot push writes (idx_head) and the slot pop removes (idx_tail, which
\* pop_tail names until the swap) are different slots.
C21_SlotDisjoint ==
    (PushPastFullTest /\ PopPastEmptyTest) =>
        /\ idx_head # idx_tail
        /\ pop_pc = "swap" => pop_tail = idx_tail /\ pop_tail # idx_head

\* C21 witness: in a buffer of four slots whose cursors have wrapped, push
\* is about to write its slot while pop is about to swap its own.
C21_Witness ==
    /\ kind = "ring" /\ SIZE = 4
    /\ push_pc = "write" /\ pop_pc = "swap"
    /\ idx_head < idx_tail
    /\ Len(popped) >= 2

\* Neither thread is inside a call.
Quiescent == kind = "ring" /\ push_pc = "idle" /\ pop_pc = "idle"

\* What push's full test and pop's empty test compute from the cursors as
\* they are now: the answer of a call that runs alone from this state.
WouldPushFull == PushIsFull(PushWrap(idx_head + 1), idx_tail)
WouldPopEmpty == PopIsEmpty(idx_head, idx_tail)

\* In a quiescent state is_full and is_empty compute what push and pop
\* would answer.
PredicatesAgree ==
    Quiescent =>
        /\ IsFull(idx_tail, idx_head) <=> WouldPushFull
        /\ IsEmpty(idx_tail, idx_head) <=> WouldPopEmpty

\* A call of is_full or is_empty that ran with the other thread quiet
\* returns that answer.
AnswersAgree ==
    /\ ( /\ push_pc = "full_head" /\ push_pc' = "idle"
         /\ pop_pc = "idle" /\ full_tail = idx_tail )
           => (saw_full' = "full" <=> WouldPushFull)
    /\ ( /\ pop_pc = "empty_head" /\ pop_pc' = "idle"
         /\ push_pc = "idle" )
           => (saw_empty' = "empty" <=> WouldPopEmpty)

\* A step of is_full or of is_empty.
PredicateStep ==
    \/ push_pc' # push_pc /\ "full_head" \in {push_pc, push_pc'}
    \/ pop_pc' # pop_pc /\ "empty_head" \in {pop_pc, pop_pc'}

\* is_full and is_empty change neither the cursors nor the slots.
PredicatesReadOnly ==
    (kind = "ring" /\ PredicateStep) => UNCHANGED <<ringShared, ringHist>>

\* C22: in a quiescent state is_full() is true exactly when push would
\* return Full and is_empty() is true exactly when pop would return Empty,
\* and neither predicate changes the buffer.
C22_PredicatesAgree ==
    []PredicatesAgree /\ [][AnswersAgree /\ PredicatesReadOnly]_vars

\* C22 witness: with no call in progress in a full buffer of four slots
\* whose head is at the last slot, is_full has answered true and is_empty
\* has answered false.
C22_Witness ==
    /\ Quiescent /\ SIZE = 4
    /\ idx_head = 3 /\ idx_tail = 0
    /\ saw_full = "full" /\ saw_empty = "items"

\* The push that follows an is_full() answered false passes its full test.
RoomStaysRoom ==
    ( /\ kind = "ring" /\ saw_full = "room"
      /\ push_pc = "load_tail" /\ push_pc' # push_pc )
        => push_pc' = "write"

\* The pop that follows an is_empty() answered false passes its empty test.
ItemsStayItems ==
    ( /\ kind = "ring" /\ saw_empty = "items"
      /\ pop_pc = "load_head" /\ pop_pc' # pop_pc )
        => pop_pc' = "swap"

\* A push past its full test returns Ok, a pop past its empty test Ok(res).
PastTestSucceeds ==
    /\ (kind = "ring" /\ push_pc = "store" /\ push_pc' = "idle")
           => push_ret' = "Ok"
    /\ (kind = "ring" /\ pop_pc = "store" /\ pop_pc' = "idle")
           => pop_ret'.st = "Ok"

\* C24: after the producer has seen is_full() == false its next push
\* succeeds, and after the consumer has seen is_empty() == false its next
\* pop succeeds, whatever steps the other thread takes in between.
C24_OneSidedStability ==
    [][RoomStaysRoom /\ ItemsStayItems /\ PastTestSucceeds]_vars

\* C24 witness: the producer, having seen is_full() == false, is at the full
\* test of its push while the consumer, having seen is_empty() == false, is
\* at the empty test of its pop, after earlier pushes and pops.
C24_Witness ==
    /\ kind = "ring" /\ SIZE >= 3
    /\ saw_full = "room" /\ push_pc = "load_tail"
    /\ saw_empty = "items" /\ pop_pc = "load_head"
    /\ Len(popped) >= 1 /\ Len(pushed) >= SIZE

-----------------------------------------------------------------------------
(* Further properties of LockFreeValue.                                    *)

\* C16: after push and get_last calls run one after the other since
\* construction, set_idx == get_idx exactly when no push has completed since
\* the last get_last that returned Ok (or since construction).
C16_FreshnessFlag ==
    ( /\ kind = "value" /\ SIZE >= 2 /\ sinceNew
      /\ pub_pc = "idle" /\ get_pc = "idle" )
        => (set_idx = get_idx <=> ~unread)

\* The slot C17 names for the cursors set and get.
ModNextSafe(set, get) ==
    IF (set + 1) % SIZE = get THEN (get + 1) % SIZE ELSE (set + 1) % SIZE

\* C17: once a push that runs with no get_last beside it has chosen its
\* slot, the slot is (set_idx + 1) mod SIZE, or (get_idx + 1) mod SIZE when
\* that equals get_idx; it is the slot push writes and stores into set_idx.
C17_SlotSelection ==
    ( /\ kind = "value" /\ SIZE >= 2
      /\ pub_pc \in {"read_old", "write", "store"}
      /\ ~overlap )
        => pub_next = ModNextSafe(set_idx, get_idx)

\* The number of places the pushed value v is in: returned by a get_last,
\* returned by a push, or stored in a slot (once for each slot holding it).
Places(v) ==
    (IF v \in taken THEN 1 ELSE 0) + (IF v \in displaced THEN 1 ELSE 0)
        + Cardinality({i \in Slots : data[i] = v})

\* C18: with no call in progress, after push and get_last calls only, every
\* value a push was given is in exactly one place.
C18_NoSilentLoss ==
    ( /\ kind = "value" /\ SIZE >= 2 /\ cleared = 0
      /\ pub_pc = "idle" /\ get_pc = "idle" )
        => \A v \in 1..pub_count : Places(v) = 1

\* get_last is past its store into get_idx and has not yet returned: it is
\* removing the payload of slot gl_set.
GetLastRemoving == kind = "value" /\ get_pc \in {"read", "clear"}

\* While get_last is removing slot gl_set, get_idx names that slot.
ClaimHeldWhileRemoving == GetLastRemoving => get_idx = gl_set

\* A step in which push reads get_idx and settles on its slot.
PublishChooses ==
    pub_pc \in {"load_get", "skip"} /\ pub_pc' = "read_old"

\* A push that settles on its slot while get_last is removing slot gl_set
\* settles on another slot.
ChoiceAvoidsRemoved ==
    (GetLastRemoving /\ PublishChooses) => pub_next' # gl_set

\* C19: get_last stores get_idx before it removes the payload, so get_idx
\* names the slot for as long as it is being removed, and a push that reads
\* get_idx in that time does not choose the slot.
C19_ClaimBeforeDrain == []ClaimHeldWhileRemoving /\ [][ChoiceAvoidsRemoved]_vars

\* C23: in runs of push and get_last only, a get_last that returns a pushed
\* value returns one pushed no earlier than every value get_last has
\* returned before (values are numbered in the order of the push calls).
C23_MonotonicFreshness ==
    [][ ( /\ kind = "value" /\ cleared = 0
          /\ get_pc = "clear" /\ get_pc' = "idle"
          /\ gl_t >= 1 )
            => \A v \in taken : v <= gl_t ]_vars

\* C26: idx_head, idx_tail, set_idx and get_idx are in 0..SIZE-1 in every
\* state, and so is every local index at the point where it selects a slot.
C26_CursorRange ==
    /\ kind = "ring" =>
           /\ idx_head \in Slots /\ idx_tail \in Slots
           /\ pop_pc = "swap" => pop_tail \in Slots
    /\ kind = "value" =>
           /\ set_idx \in Slots /\ get_idx \in Slots
           /\ pub_pc \in {"read_old", "write", "store"} => pub_next \in Slots
           /\ get_pc \in {"claim", "read", "clear"} => gl_set \in Slots

\* C26 witness (RingBuffer): both cursors of a buffer of four slots have
\* gone round once, idx_head a second time.
C26_Witness ==
    /\ kind = "ring" /\ SIZE = 4
    /\ Len(pushed) = 6 /\ Len(popped) = 4
    /\ idx_head = 2 /\ idx_tail = 0

\* A step of the thread holding the producer-side handle (RingBufferReader,
\* ValueWriter), and one of the thread holding the consumer-side handle.
ProducerSteps == push_pc' # push_pc \/ pub_pc' # pub_pc
ConsumerSteps == pop_pc' # pop_pc \/ get_pc' # get_pc

\* C14: no step of an operation of the producer-side handle changes idx_tail
\* or get_idx, and no step of an operation of the consumer-side handle
\* changes idx_head or set_idx.
C14_SingleWriter ==
    [][ /\ ProducerSteps => idx_tail' = idx_tail /\ get_idx' = get_idx
        /\ ConsumerSteps => idx_head' = idx_head /\ set_idx' = set_idx ]_vars

=============================================================================
